---- MODULE Spec2Model ----
(***************************************************************************)
(* A model of src/reservoir_wrangler.py: the three-stage scrape of ANA's   *)
(* SAR pages (systems index, reservoir index of each system, history of    *)
(* each reservoir) and the writing of every entity to disk.                *)
(*                                                                         *)
(* Text (names, codes, dates) is a sequence of one-character strings, so   *)
(* that _clean, upper() and the slices of the date are computed.           *)
(* The file config.json is the variable `config_json`, and `cfg` is the    *)
(* configuration src/config.py makes of it.                                *)
(* The web is the variable `world`; the status of every GET is chosen when *)
(* the request returns.  random.shuffle followed by a FIFO work queue is   *)
(* modelled by letting a free worker take any pending item.                *)
(***************************************************************************)
EXTENDS Integers, Sequences, FiniteSets, TLC

VARIABLES config_json, cfg, cpu, world, pc, exc, systems, resTasks, reservoirs, histTasks, fs

vars == <<config_json, cfg, cpu, world, pc, exc, systems, resTasks, reservoirs, histTasks, fs>>

-----------------------------------------------------------------------------
(* Bounds of the model. *)

\* os.cpu_count() of the machine of the run.
Cores == 1
\* The small worlds list at most MaxSys systems, each with one reservoir or
\* with none.
MaxSys == 2
\* The largest number of rows on a history page.
MaxRows == 2
\* The pool world: one system listing PoolRes reservoirs.
PoolRes == 6
\* The wide world: WideSys systems, none listing a reservoir.
WideSys == 6
\* The longest raw name of the name worlds.
MaxLen == 2
\* The most earlier runs that have left their files in the output directory.
MaxRuns == 2

(* Program constants. *)
HTTP_OK == 200
WORKERS_CAP == 32
WORKERS_EXTRA == 4

Min2(a, b) == IF a <= b THEN a ELSE b

-----------------------------------------------------------------------------
(* Text. *)

UPPERCASE == <<"A","B","C","D","E","F","G","H","I","J","K","L","M",
               "N","O","P","Q","R","S","T","U","V","W","X","Y","Z",
               "Á","Ã","Â","É","Ê","Í","Ó","Õ","Ô","Ú","Ç","À">>
LOWERCASE == <<"a","b","c","d","e","f","g","h","i","j","k","l","m",
               "n","o","p","q","r","s","t","u","v","w","x","y","z",
               "á","ã","â","é","ê","í","ó","õ","ô","ú","ç","à">>
\* The accented letters _clean replaces, and their replacements.
ACCENTED == <<"á","ã","â","é","ê","í","ó","õ","ô","ú","ç">>
PLAIN    == <<"a","a","a","e","e","i","o","o","o","u","c">>

DIGITS == <<"0","1","2","3","4","5","6","7","8","9">>

IsSpace(c) == c \in {" ", "\t", "\n"}

Translate(c, from, to) ==
    IF \E i \in 1..Len(from) : from[i] = c
    THEN to[CHOOSE i \in 1..Len(from) : from[i] = c]
    ELSE c

\* str.lower() and str.upper(), character by character.
Lower(s) == [i \in 1..Len(s) |-> Translate(s[i], UPPERCASE, LOWERCASE)]
Upper(s) == [i \in 1..Len(s) |-> Translate(s[i], LOWERCASE, UPPERCASE)]

\* The decimal digits of a natural number.
RECURSIVE Decimal(_)
Decimal(n) == IF n < 10 THEN <<DIGITS[n + 1]>>
              ELSE Decimal(n \div 10) \o <<DIGITS[(n % 10) + 1]>>

\* str.strip()
RECURSIVE LStrip(_)
LStrip(s) == IF s # <<>> /\ IsSpace(Head(s)) THEN LStrip(Tail(s)) ELSE s
RECURSIVE RStrip(_)
RStrip(s) == IF s # <<>> /\ IsSpace(s[Len(s)])
             THEN RStrip(SubSeq(s, 1, Len(s) - 1)) ELSE s
Strip(s) == RStrip(LStrip(s))

\* "_".join(s.split()) of a stripped string: every run of whitespace
\* becomes one underscore.
RECURSIVE JoinWords(_)
JoinWords(s) ==
    IF s = <<>> THEN <<>>
    ELSE IF IsSpace(Head(s))
         THEN <<"_">> \o JoinWords(LStrip(s))
         ELSE <<Head(s)>> \o JoinWords(Tail(s))

\* None, as the default of the parameter `name`.
None == <<"None">>

\* _Template._clean: [ok |-> FALSE] stands for the NotImplementedError.
CleanText(s) ==
    [i \in 1..Len(s) |-> Translate(s[i], ACCENTED, PLAIN)]
_clean(input_string) ==
    IF input_string # <<>> /\ input_string # None
    THEN [ok |-> TRUE,
          out |-> CleanText(Lower(JoinWords(Strip(input_string))))]
    ELSE [ok |-> FALSE, out |-> <<>>]

-----------------------------------------------------------------------------
(* The web: what the pages list.  A world is the home page's systems, each *)
(* with the options of its reservoir drop-down, each with its history page *)
(* (the number of <td> cells of every column class).                       *)

DOMAIN_URL == <<"https://www.ana.gov.br">>
SAR_URL == DOMAIN_URL \o <<"/sar0/Home">>

\* date.today().strftime("%Y/%m/%d")
TODAY == <<"2","0","2","0","/","1","1","/","3","0">>

\* The column classes "text-center coluna_<k>" of a history table.
Columns == 3..13

SystemRawName(s) ==
    IF s = 1 THEN <<"S","I","N">>
    ELSE IF s = 2 THEN <<"N","o","r","d","e","s","t","e"," ","e"," ","S","e","m","i","á","r","i","d","o">>
    ELSE IF s = 3 THEN <<"S","i","s","t","e","m","a"," ","C","a","n","t","a","r","e","i","r","a">>
    ELSE <<"Z","o","n","a"," ">> \o Decimal(s)

SystemHref(s) == <<"/sar0/Medicao", "/">> \o Decimal(s)

ReservoirCode(s, j) == Decimal(s) \o Decimal(j)
ReservoirRawName(s, j) == <<"A","ç","u","d","e"," ">> \o ReservoirCode(s, j)

\* The rows on the history page of reservoir j of system s: every count of
\* 0..MaxRows occurs.
RowsOnPage(s, j) == MaxRows - ((s + j) % (MaxRows + 1))

\* The world whose system s lists nres[s] reservoirs.
World(nres) ==
    [systems |->
        [s \in 1..Len(nres) |->
            [name |-> SystemRawName(s),
             href |-> SystemHref(s),
             reservoirs |->
                [j \in 1..nres[s] |->
                    [code |-> ReservoirCode(s, j),
                     name |-> ReservoirRawName(s, j),
                     page |-> [c \in Columns |-> RowsOnPage(s, j)]]]]]]

RECURSIVE Vectors(_, _)
\* The sequences of length n over 0..m.
Vectors(n, m) ==
    IF n = 0 THEN {<<>>}
    ELSE {v \o <<k>> : v \in Vectors(n - 1, m), k \in 0..m}

SmallWorlds == {World(v) : v \in UNION {Vectors(n, 1) : n \in 0..MaxSys}}
PoolWorld == World(<<PoolRes>>)
WideWorld == World([s \in 1..WideSys |-> 0])

\* A world of one page per entity, written out: the systems' raw names, and
\* for each system the codes, raw names and pages of its options.
WorldOf(names, options) ==
    [systems |->
        [s \in 1..Len(names) |->
            [name |-> names[s], href |-> SystemHref(s),
             reservoirs |-> options[s]]]]

Option(code, name, page) == [code |-> code, name |-> name, page |-> page]
FullPage == [c \in Columns |-> MaxRows]

\* The twin world: SIN and Nordeste e Semiárido both list the same reservoir
\* (same code, same name).
TwinWorld ==
    WorldOf(<<SystemRawName(1), SystemRawName(2)>>,
            << <<Option(ReservoirCode(1, 1), ReservoirRawName(1, 1), FullPage)>>,
               <<Option(ReservoirCode(1, 1), ReservoirRawName(1, 1), FullPage)>> >>)

\* The raw names of the name worlds: every text of at most MaxLen characters
\* of NameChars.
NameChars == {"A", "Ã", "à", " ", "_", "b"}
RECURSIVE Texts(_)
Texts(n) ==
    IF n = 0 THEN {<<>>}
    ELSE Texts(n - 1) \cup {t \o <<c>> : t \in Texts(n - 1), c \in NameChars}
RawNames == Texts(MaxLen)

\* The name worlds: SIN lists one reservoir of any raw name, or the home page
\* lists one system of any raw name (and a reservoir under it).
NameWorlds ==
    {WorldOf(<<SystemRawName(1)>>,
             << <<Option(ReservoirCode(1, 1), y, FullPage)>> >>) : y \in RawNames}
    \cup
    {WorldOf(<<y>>,
             << <<Option(ReservoirCode(1, 1), ReservoirRawName(1, 1), FullPage)>> >>) :
        y \in RawNames}

\* The ragged worlds: a system of each kind lists one reservoir whose page
\* has a cells of every class coluna_<k> of even k and b cells of the others.
RaggedPage(a, b) == [c \in Columns |-> IF c % 2 = 0 THEN a ELSE b]
RaggedWorlds ==
    {WorldOf(<<SystemRawName(s)>>,
             << <<Option(ReservoirCode(s, 1), ReservoirRawName(s, 1),
                         RaggedPage(a, b))>> >>) :
        s \in 1..3, a \in 0..MaxRows, b \in 0..MaxRows}

EdgeWorlds == {TwinWorld} \cup NameWorlds \cup RaggedWorlds

\* The worlds of the repeated runs: one or two systems, each listing one
\* reservoir with a full page.
RerunWorlds ==
    {WorldOf([s \in 1..n |-> SystemRawName(s)],
             [s \in 1..n |->
                 <<Option(ReservoirCode(s, 1), ReservoirRawName(s, 1), FullPage)>>]) :
        n \in 1..MaxSys}

\* The status codes a GET returns here: 200 and one that is not 200.
Statuses == {HTTP_OK, 404}

-----------------------------------------------------------------------------
(* Rows: a namedtuple is its class name, its fields and its values. *)

SYSTEMS_CLASS == <<"s","y","s","t","e","m","s">>
RESERVOIRS_CLASS == <<"r","e","s","e","r","v","o","i","r","s">>

Row(cls, fields, vals) == [cls |-> cls, fields |-> fields, vals |-> vals]

\* _HistoryOfReservoir.__PARSING_MAP: per system, the fields in order, each
\* with the number k of its class "text-center coluna_<k>".
KIND_NE == <<"n","o","r","d","e","s","t","e","_","e","_","s","e","m","i","a","r","i","d","o">>
KIND_SIN == <<"s","i","n">>
KIND_CANT == <<"s","i","s","t","e","m","a","_","c","a","n","t","a","r","e","i","r","a">>

PARSING_MAP(kind) ==
    IF kind = KIND_NE THEN
        << <<"capacity_hm3", 4>>, <<"level_m", 3>>, <<"volume_hm3", 5>>,
           <<"volume_100", 6>>, <<"date", 7>> >>
    ELSE IF kind = KIND_SIN THEN
        << <<"level_m", 3>>, <<"influx_m3_s", 4>>, <<"defluence_m3_s", 5>>,
           <<"poured_flow_rate_m3_s", 6>>, <<"turbined_flow_rate_m3_s", 7>>,
           <<"natural_flow_rate_m2_s", 5>>, <<"useful_volume_100", 9>>,
           <<"incremental_flow_rate_m3_s", 11>>, <<"date", 13>> >>
    ELSE IF kind = KIND_CANT THEN
        << <<"level_m", 3>>, <<"useful_volume_hm3", 4>>,
           <<"useful_volume_100", 5>>, <<"influx_m3_s", 6>>,
           <<"defluence_m3_s", 7>>, <<"date", 8>> >>
    ELSE <<>>
\* Whether __PARSING_MAP.get(kind) is a dictionary (and not None).
HasParsingMap(kind) == kind \in {KIND_NE, KIND_SIN, KIND_CANT}

\* field.upper() of the field names of the rows.
FieldUpper(f) ==
    CASE f = "name" -> "NAME" [] f = "address" -> "ADDRESS"
      [] f = "code" -> "CODE" [] f = "system" -> "SYSTEM"
      [] f = "reservoir" -> "RESERVOIR"
      [] f = "capacity_hm3" -> "CAPACITY_HM3" [] f = "level_m" -> "LEVEL_M"
      [] f = "volume_hm3" -> "VOLUME_HM3" [] f = "volume_100" -> "VOLUME_100"
      [] f = "date" -> "DATE" [] f = "influx_m3_s" -> "INFLUX_M3_S"
      [] f = "defluence_m3_s" -> "DEFLUENCE_M3_S"
      [] f = "poured_flow_rate_m3_s" -> "POURED_FLOW_RATE_M3_S"
      [] f = "turbined_flow_rate_m3_s" -> "TURBINED_FLOW_RATE_M3_S"
      [] f = "natural_flow_rate_m2_s" -> "NATURAL_FLOW_RATE_M2_S"
      [] f = "useful_volume_100" -> "USEFUL_VOLUME_100"
      [] f = "incremental_flow_rate_m3_s" -> "INCREMENTAL_FLOW_RATE_M3_S"
      [] f = "useful_volume_hm3" -> "USEFUL_VOLUME_HM3"

-----------------------------------------------------------------------------
(* Entities: _SARSystems, _ReservoirsOfSystem, _HistoryOfReservoir. *)

NoError == "none"

\* _Template.__init__ and the subclasses' __init__: the entity before any
\* request, and whether _clean accepted the name.
NewEntity(kind, address, name, system) ==
    LET c == _clean(name) IN
    [ok |-> c.ok,
     ent |-> [kind |-> kind, address |-> address, name |-> c.out,
              system |-> system, date |-> TODAY,
              status |-> 0, parsed |-> FALSE, data |-> <<>>]]

\* _ReservoirsOfSystem.__reservoir_address
reservoir_address_NoCode(address, date, code) ==
    address
    \o <<"?dropDownListEstados=6&dropDownListReservatorios=">>
    \o <<"&dataInicial=22%2F04%2F1500&dataFinal=">>
    \o SubSeq(date, 9, 10) \o <<"%2F">>
    \o SubSeq(date, 6, 7) \o <<"%2F">>
    \o SubSeq(date, 1, 4)
    \o <<"&button=Buscar">>
reservoir_address(address, date, code) ==
    address
    \o <<"?dropDownListEstados=6&dropDownListReservatorios=">> \o code
    \o <<"&dataInicial=22%2F04%2F1500&dataFinal=">>
    \o SubSeq(date, 9, 10) \o <<"%2F">>
    \o SubSeq(date, 6, 7) \o <<"%2F">>
    \o SubSeq(date, 1, 4)
    \o <<"&button=Buscar">>

\* _SARSystems._parse: one row (name, address) per system of the page, the
\* name as it is written on the page.
SystemsParse(e) ==
    LET listed == world.systems IN
    [ent |-> [e EXCEPT !.parsed = TRUE,
                       !.data = [s \in 1..Len(listed) |->
                                    Row(SYSTEMS_CLASS, <<"name", "address">>,
                                        <<listed[s].name,
                                          DOMAIN_URL \o listed[s].href>>)]],
     exc |-> NoError]

\* The page a system address serves: the options of the drop-down, the
\* first one left out.
OptionsAt_First(address) ==
    IF world.systems = <<>> THEN <<>> ELSE world.systems[1].reservoirs
OptionsAt(address) ==
    LET S == {s \in 1..Len(world.systems) :
                 DOMAIN_URL \o world.systems[s].href = address}
    IN IF S = {} THEN <<>> ELSE world.systems[CHOOSE s \in S : TRUE].reservoirs

\* _ReservoirsOfSystem._parse: one row (code, name, address, system) per
\* option; _clean raises on an option without text.
ReservoirsParse(e) ==
    LET options == OptionsAt(e.address)
        rows == [j \in 1..Len(options) |->
                    Row(RESERVOIRS_CLASS,
                        <<"code", "name", "address", "system">>,
                        <<options[j].code,
                          _clean(options[j].name).out,
                          reservoir_address(e.address, e.date, options[j].code),
                          e.name>>)]
    IN IF \E j \in 1..Len(options) : ~_clean(options[j].name).ok
       THEN [ent |-> [e EXCEPT !.parsed = TRUE],
             exc |-> "NotImplementedError"]
       ELSE [ent |-> [e EXCEPT !.parsed = TRUE, !.data = rows],
             exc |-> NoError]

\* The history page an address serves: the cells of each column class.
HistoryPageAt(address) ==
    LET R == {p \in UNION {{<<s, j>> : j \in 1..Len(world.systems[s].reservoirs)} :
                            s \in 1..Len(world.systems)} :
                 reservoir_address(DOMAIN_URL \o world.systems[p[1]].href, TODAY,
                                   world.systems[p[1]].reservoirs[p[2]].code)
                     = address}
    IN IF R = {} THEN [c \in Columns |-> 0]
       ELSE LET p == CHOOSE q \in R : TRUE
            IN world.systems[p[1]].reservoirs[p[2]].page

\* The text of the i-th cell of column class k.
CellText(k, i) == Decimal(k) \o <<":">> \o Decimal(i)

RECURSIVE MinLen(_)
\* zip(*lists) stops at the shortest list.
MinLen_None(lists) == 0
MinLen(lists) ==
    IF Len(lists) = 1 THEN Len(lists[1])
    ELSE Min2(Len(lists[1]), MinLen(Tail(lists)))

\* _HistoryOfReservoir._row: the fields of the system's map and "reservoir".
HistoryFields(system) ==
    [k \in 1..Len(PARSING_MAP(system)) |-> PARSING_MAP(system)[k][1]]
        \o <<"reservoir">>

\* _HistoryOfReservoir._parse: the cells of each field's class, a column of
\* the reservoir's name as long as the first field's, transposed into rows.
HistoryParse(e) ==
    IF ~HasParsingMap(e.system)
    THEN [ent |-> [e EXCEPT !.parsed = TRUE], exc |-> "AttributeError"]
    ELSE
    LET page == HistoryPageAt(e.address)
        tags == PARSING_MAP(e.system)
        values == [k \in 1..Len(tags) |->
                      [i \in 1..page[tags[k][2]] |-> CellText(tags[k][2], i)]]
        history == values \o <<[i \in 1..Len(values[1]) |-> e.name]>>
        n == MinLen(history)
    IN [ent |-> [e EXCEPT !.parsed = TRUE,
                          !.data = [i \in 1..n |->
                                       Row(e.system, HistoryFields(e.system),
                                           [k \in 1..Len(history) |-> history[k][i]])]],
        exc |-> NoError]

_parse(e) ==
    CASE e.kind = "systems" -> SystemsParse(e)
      [] e.kind = "reservoirs" -> ReservoirsParse(e)
      [] e.kind = "history" -> HistoryParse(e)

\* The test of _Template.scrape: the page is parsed when it holds.
ShouldParseAlways(status) == TRUE
ShouldParse(status) == status = HTTP_OK

\* _Template.scrape, the request having returned `status`: _download records
\* the status, and the page is parsed only if the status is 200.
scrape(e, status) ==
    LET d == [e EXCEPT !.status = status] IN
    IF ShouldParse(d.status) THEN _parse(d) ELSE [ent |-> d, exc |-> NoError]

-----------------------------------------------------------------------------
(* The output directory: a function from file names to what each holds.   *)
(* A .db file holds tables (columns and records); a .json or .pickle file  *)
(* holds the rows as dictionaries; a .csv file holds a header and rows.    *)

Put(f, x, v) == [y \in (DOMAIN f) \cup {x} |-> IF y = x THEN v ELSE f[y]]

NoFiles == [x \in {} |-> 0]
NoTables == [x \in {} |-> 0]

\* _Template._get_file_name
_get_file_name_Shared(e, folder, extension) == <<folder, <<"s", "a", "r">>, extension>>
_get_file_name(e, folder, extension) == <<folder, e.name, extension>>

\* _DataBase.__init__: sqlite3.connect creates the file when there is none.
Connect(files, db_file) ==
    IF db_file \in DOMAIN files THEN files
    ELSE Put(files, db_file, [kind |-> "db", tables |-> NoTables])

\* _DataBase.__create_table: CREATE TABLE IF NOT EXISTS, every column TEXT.
create_table_Replace(tables, table_name, columns) ==
    Put(tables, table_name, [columns |-> columns, records |-> <<>>])
create_table(tables, table_name, columns) ==
    IF table_name \in DOMAIN tables THEN tables
    ELSE Put(tables, table_name, [columns |-> columns, records |-> <<>>])

\* _DataBase.write_data: the table is named after the class of the first
\* row, in upper case; every row becomes one record.
write_data(db, list) ==
    IF list = <<>>
    THEN [db |-> db, exc |-> "IndexError"]
    ELSE
    LET table_name == Upper(list[1].cls)
        fields == [k \in 1..Len(list[1].fields) |-> FieldUpper(list[1].fields[k])]
        tables == create_table(db.tables, table_name, fields)
    IN IF \E k \in 1..Len(fields) :
             \A c \in 1..Len(tables[table_name].columns) :
                 tables[table_name].columns[c] # fields[k]
       THEN [db |-> [db EXCEPT !.tables = tables], exc |-> "OperationalError"]
       ELSE [db |-> [db EXCEPT !.tables =
                        Put(tables, table_name,
                            [tables[table_name] EXCEPT !.records =
                                @ \o [i \in 1..Len(list) |-> list[i].vals]])],
             exc |-> NoError]

\* dict(row._asdict())
AsDict(row) == [fields |-> row.fields, vals |-> row.vals]

\* The .db part of _Template.to_disk.
ToDiskDb(e, c, files) ==
    LET db_name == _get_file_name(e, c.DIR, "db")
        opened == Connect(files, db_name)
        w == write_data(opened[db_name], e.data)
    IN [fs |-> Put(opened, db_name, w.db), exc |-> w.exc]

\* The .json, .pickle and .csv part of _Template.to_disk.
ToDiskText(e, c, files) ==
    LET data == [i \in 1..Len(e.data) |-> AsDict(e.data[i])]
        j == IF c.JSON
             THEN Put(files, _get_file_name(e, c.DIR, "json"),
                      [kind |-> "json", rows |-> data])
             ELSE files
        p == IF c.PICKLE
             THEN Put(j, _get_file_name(e, c.DIR, "pickle"),
                      [kind |-> "pickle", rows |-> data])
             ELSE j
        csv_name == _get_file_name(e, c.DIR, "csv")
    IN IF ~c.CSV THEN [fs |-> p, exc |-> NoError]
       ELSE IF data = <<>>
       THEN [fs |-> Put(p, csv_name, [kind |-> "csv", header |-> <<>>, rows |-> <<>>]),
             exc |-> "IndexError"]
       ELSE [fs |-> Put(p, csv_name,
                        [kind |-> "csv", header |-> data[1].fields,
                         rows |-> [i \in 1..Len(data) |-> data[i].vals]]),
             exc |-> NoError]

\* _Template.to_disk: the files after the call, and the exception it raised.
to_disk_All(e, c, files) ==
    LET all == [c EXCEPT !.SQLITE3 = TRUE, !.JSON = TRUE, !.PICKLE = TRUE,
                         !.CSV = TRUE]
        a == ToDiskDb(e, all, files)
    IN IF a.exc # NoError THEN a ELSE ToDiskText(e, all, a.fs)
to_disk(e, c, files) ==
    LET a == IF c.SQLITE3 THEN ToDiskDb(e, c, files)
             ELSE [fs |-> files, exc |-> NoError]
    IN IF a.exc # NoError THEN a
       ELSE IF c.JSON \/ c.PICKLE \/ c.CSV THEN ToDiskText(e, c, a.fs)
       ELSE a

\* The records of the .db file of entity e, all tables together.
RECURSIVE SumRecords(_, _)
SumRecords(tables, names) ==
    IF names = {} THEN 0
    ELSE LET t == CHOOSE x \in names : TRUE
         IN Len(tables[t].records) + SumRecords(tables, names \ {t})
StoredRecords(files, db_name) ==
    IF db_name \in DOMAIN files
    THEN SumRecords(files[db_name].tables, DOMAIN files[db_name].tables)
    ELSE 0

-----------------------------------------------------------------------------
(* Jobs: one entity's construction, scrape() and to_disk(), with what      *)
(* to_disk did (kept for the properties).                                  *)

NotPersisted ==
    [called |-> FALSE, fresh |-> FALSE, exc |-> NoError, had |-> 0,
     stored |-> 0, touched |-> {}]

Persisted(e, c, before, r) ==
    [called |-> TRUE,
     fresh |-> _get_file_name(e, c.DIR, "db") \notin DOMAIN before,
     exc |-> r.exc,
     had |-> StoredRecords(before, _get_file_name(e, c.DIR, "db")),
     stored |-> StoredRecords(r.fs, _get_file_name(e, c.DIR, "db")),
     touched |-> {f \in DOMAIN r.fs : f \notin DOMAIN before \/ r.fs[f] # before[f]}]

\* The entity of a job before its constructor has run.
NoEntity ==
    [kind |-> "none", address |-> <<>>, name |-> <<>>, system |-> <<>>,
     date |-> <<>>, status |-> 0, parsed |-> FALSE, data |-> <<>>]

Job(arg) ==
    [st |-> "pending", arg |-> arg, ent |-> NoEntity, exc |-> NoError,
     disk |-> NotPersisted]

\* The value of field f of a row (row.f).
Field(row, f) == row.vals[CHOOSE k \in 1..Len(row.fields) : row.fields[k] = f]

\* The construction of the entity of a job; a name _clean refuses ends the
\* job with the error.
Construct(job, kind, address, name, system) ==
    LET n == NewEntity(kind, address, name, system) IN
    IF n.ok THEN [job EXCEPT !.st = "running", !.ent = n.ent]
    ELSE [job EXCEPT !.st = "done", !.exc = "NotImplementedError"]

\* scrape() then to_disk(cfg) of a job whose request returned `status`:
\* the body of scrape_reservoirs_of_system and of scrape_history_of_reservoir
\* after the constructor.
ScrapeAndSave_Always(job, status, c, files) ==
    LET r == scrape(job.ent, status)
        d == to_disk(r.ent, c, files)
    IN [job |-> [job EXCEPT !.st = "done", !.ent = r.ent,
                            !.exc = IF r.exc # NoError THEN r.exc ELSE d.exc,
                            !.disk = Persisted(r.ent, c, files, d)],
        fs |-> d.fs]
ScrapeAndSave(job, status, c, files) ==
    LET r == scrape(job.ent, status) IN
    IF r.exc # NoError
    THEN [job |-> [job EXCEPT !.st = "done", !.ent = r.ent, !.exc = r.exc],
          fs |-> files]
    ELSE LET d == to_disk(r.ent, c, files) IN
         [job |-> [job EXCEPT !.st = "done", !.ent = r.ent, !.exc = d.exc,
                              !.disk = Persisted(r.ent, c, files, d)],
          fs |-> d.fs]

Running(tasks) == {i \in 1..Len(tasks) : tasks[i].st = "running"}
Pending(tasks) == {i \in 1..Len(tasks) : tasks[i].st = "pending"}
Done(tasks) == {i \in 1..Len(tasks) : tasks[i].st = "done"}
Failed(tasks) == {i \in Done(tasks) : tasks[i].exc # NoError}

\* The result of a task: reservoirs.data (nothing before it has run).
TaskResult(job) == IF job.st = "done" /\ job.ent.kind # "none" THEN job.ent.data ELSE <<>>

RECURSIVE Flatten(_)
\* itertools.chain.from_iterable
Flatten(lists) ==
    IF lists = <<>> THEN <<>> ELSE Head(lists) \o Flatten(Tail(lists))

\* ThreadPoolExecutor(): the default number of workers (Python 3.8 on).
DefaultWorkersUnlimited(cores) == cores + WORKERS_CAP
DefaultWorkers(cores) == Min2(WORKERS_CAP, cores + WORKERS_EXTRA)

\* MAX_WORKERS = min(32, os.cpu_count() + 4)
MAX_WORKERS_Max(cores) ==
    IF WORKERS_CAP >= cores + WORKERS_EXTRA THEN WORKERS_CAP
    ELSE cores + WORKERS_EXTRA
MAX_WORKERS(cores) == Min2(WORKERS_CAP, cores + WORKERS_EXTRA)

\* Leaving `with ThreadPoolExecutor() as executor`: shutdown(wait=True)
\* returns when every task of the reservoirs stage has run.
ReservoirsJoinedEarly(tasks) == tasks = <<>> \/ Done(tasks) # {}
ReservoirsJoined(tasks) == Pending(tasks) = {} /\ Running(tasks) = {}

\* concurrent.futures.wait(..., return_when=FIRST_COMPLETED)
FirstCompleted(tasks) == tasks = <<>> \/ Done(tasks) # {}

\* Leaving `with ThreadPoolExecutor(max_workers=MAX_WORKERS) as e`:
\* shutdown(wait=True) returns when every history task has run.
HistoryJoinedEarly(tasks) == FirstCompleted(tasks)
HistoryJoined(tasks) == Pending(tasks) = {} /\ Running(tasks) = {}

\* What the main thread sees of the history futures: nothing reads their
\* results, so an exception of a task stays in its future.
HistoryOutcomeRaising(tasks) ==
    IF Failed(tasks) # {}
    THEN tasks[CHOOSE i \in Failed(tasks) : TRUE].exc ELSE NoError
HistoryOutcome(tasks) == NoError

-----------------------------------------------------------------------------
(* The run: scrape(cfg). *)

\* config.DEFAULTS
DEFAULTS ==
    [DIR |-> "__output__", JSON |-> TRUE, SQLITE3 |-> TRUE, PICKLE |-> TRUE,
     CSV |-> TRUE]

Configs ==
    [DIR : {"__output__"}, JSON : BOOLEAN, SQLITE3 : BOOLEAN,
     PICKLE : BOOLEAN, CSV : BOOLEAN]

\* The configurations of the two large worlds: the defaults, and .json alone.
LargeConfigs ==
    {DEFAULTS,
     [DIR |-> "__output__", JSON |-> TRUE, SQLITE3 |-> FALSE,
      PICKLE |-> FALSE, CSV |-> FALSE]}

\* The file config.json: there is none, or it holds a JSON object (`dict`),
\* or it holds something json.load cannot read.
NoConfigFile == [exists |-> FALSE, json |-> FALSE, dict |-> <<>>]
Garbled == [exists |-> TRUE, json |-> FALSE, dict |-> <<>>]
ConfigFile(dict) == [exists |-> TRUE, json |-> TRUE, dict |-> dict]

\* The config.json that holds every key of configuration c.
Written(c) == ConfigFile([k \in DOMAIN c |-> c[k]])

\* config.py: the file's object with the defaults of the keys it lacks, and
\* the defaults when there is no file.
config_DefaultsWin(file) ==
    IF file.exists
    THEN [key \in (DOMAIN file.dict) \cup (DOMAIN DEFAULTS) |->
             IF key \in DOMAIN DEFAULTS THEN DEFAULTS[key] ELSE file.dict[key]]
    ELSE DEFAULTS
config(file) ==
    IF file.exists
    THEN LET missing == (DOMAIN DEFAULTS) \ (DOMAIN file.dict) IN
         [key \in (DOMAIN file.dict) \cup missing |->
             IF key \in missing THEN DEFAULTS[key] ELSE file.dict[key]]
    ELSE DEFAULTS

SARSystemsName == <<"S","A","R","S","y","s","t","e","m","s">>

Init ==
    /\ \/ world \in SmallWorlds /\ config_json \in {Written(c) : c \in Configs}
       \/ /\ world \in {PoolWorld, WideWorld}
          /\ config_json \in {Written(c) : c \in LargeConfigs}
    /\ cfg = config(config_json)
    /\ cpu = Cores
    /\ pc = "systems_scrape"
    /\ exc = NoError
    /\ systems = Construct(Job(<<>>), "systems", SAR_URL, SARSystemsName, <<>>)
    /\ resTasks = <<>>
    /\ reservoirs = <<>>
    /\ histTasks = <<>>
    /\ fs = NoFiles

\* systems = _SARSystems(SAR_URL); systems.scrape()
SystemsScrape ==
    /\ pc = "systems_scrape"
    /\ \E status \in Statuses :
         LET r == scrape(systems.ent, status) IN
         /\ systems' = [systems EXCEPT !.st = "scraped", !.ent = r.ent,
                                       !.exc = r.exc]
         /\ IF r.exc = NoError
            THEN pc' = "systems_to_disk" /\ exc' = exc
            ELSE pc' = "aborted" /\ exc' = r.exc
    /\ UNCHANGED <<config_json, cfg, cpu, world, resTasks, reservoirs, histTasks, fs>>

\* systems.to_disk(cfg)
SystemsToDisk ==
    /\ pc = "systems_to_disk"
    /\ LET d == to_disk(systems.ent, cfg, fs) IN
       /\ fs' = d.fs
       /\ systems' = [systems EXCEPT !.st = "done", !.exc = d.exc,
                                     !.disk = Persisted(systems.ent, cfg, fs, d)]
       /\ IF d.exc = NoError
          THEN pc' = "reservoirs_submit" /\ exc' = exc
          ELSE pc' = "aborted" /\ exc' = d.exc
    /\ UNCHANGED <<config_json, cfg, cpu, world, resTasks, reservoirs, histTasks>>

\* random.shuffle(systems.data); executor.map(...): one task per system.
ReservoirsSubmit ==
    /\ pc = "reservoirs_submit"
    /\ resTasks' = [i \in 1..Len(systems.ent.data) |-> Job(systems.ent.data[i])]
    /\ pc' = "reservoirs_join"
    /\ UNCHANGED <<config_json, cfg, cpu, world, exc, systems, reservoirs, histTasks, fs>>

\* A free worker takes the task of a system: _ReservoirsOfSystem(name,
\* address), then the request of reservoirs.scrape().
ReservoirsCanStart(i) ==
    /\ pc = "reservoirs_join"
    /\ i \in Pending(resTasks)
    /\ Cardinality(Running(resTasks)) < DefaultWorkers(cpu)
ReservoirsStart(i) ==
    /\ ReservoirsCanStart(i)
    /\ resTasks' = [resTasks EXCEPT ![i] =
          Construct(@, "reservoirs", Field(@.arg, "address"),
                    Field(@.arg, "name"), <<>>)]
    /\ UNCHANGED <<config_json, cfg, cpu, world, pc, exc, systems, reservoirs, histTasks, fs>>

\* The request returns: the rest of reservoirs.scrape(), then
\* reservoirs.to_disk(cfg); the task's result is reservoirs.data.
ReservoirsFinish(i) ==
    /\ i \in Running(resTasks)
    /\ \E status \in Statuses :
         LET r == ScrapeAndSave(resTasks[i], status, cfg, fs) IN
         /\ resTasks' = [resTasks EXCEPT ![i] = r.job]
         /\ fs' = r.fs
    /\ UNCHANGED <<config_json, cfg, cpu, world, pc, exc, systems, reservoirs, histTasks>>

\* The with block of the reservoirs stage is left; the results are
\* flattened (an exception of a task is raised here); the list is shuffled
\* and every reservoir's history task is submitted.
ReservoirsJoin ==
    /\ pc = "reservoirs_join"
    /\ ReservoirsJoined(resTasks)
    /\ IF Failed(resTasks) # {}
       THEN /\ pc' = "aborted"
            /\ exc' = resTasks[CHOOSE i \in Failed(resTasks) : TRUE].exc
            /\ UNCHANGED <<reservoirs, histTasks>>
       ELSE /\ reservoirs' = Flatten([i \in 1..Len(resTasks) |-> TaskResult(resTasks[i])])
            /\ histTasks' = [i \in 1..Len(reservoirs') |-> Job(reservoirs'[i])]
            /\ pc' = "history_wait"
            /\ exc' = exc
    /\ UNCHANGED <<config_json, cfg, cpu, world, systems, resTasks, fs>>

\* A free worker takes the task of a reservoir: _HistoryOfReservoir(system,
\* name, address), then the request of history.scrape().
HistoryStart(i) ==
    /\ pc \in {"history_wait", "history_shutdown"}
    /\ i \in Pending(histTasks)
    /\ Cardinality(Running(histTasks)) < MAX_WORKERS(cpu)
    /\ histTasks' = [histTasks EXCEPT ![i] =
          Construct(@, "history", Field(@.arg, "address"),
                    Field(@.arg, "name"), Field(@.arg, "system"))]
    /\ UNCHANGED <<config_json, cfg, cpu, world, pc, exc, systems, resTasks, reservoirs, fs>>

\* The request returns: the rest of history.scrape(), then
\* history.to_disk(cfg).
HistoryFinish(i) ==
    /\ i \in Running(histTasks)
    /\ \E status \in Statuses :
         LET r == ScrapeAndSave(histTasks[i], status, cfg, fs) IN
         /\ histTasks' = [histTasks EXCEPT ![i] = r.job]
         /\ fs' = r.fs
    /\ UNCHANGED <<config_json, cfg, cpu, world, pc, exc, systems, resTasks, reservoirs>>

\* concurrent.futures.wait returns.
HistoryWait ==
    /\ pc = "history_wait"
    /\ FirstCompleted(histTasks)
    /\ pc' = "history_shutdown"
    /\ UNCHANGED <<config_json, cfg, cpu, world, exc, systems, resTasks, reservoirs,
                   histTasks, fs>>

\* The with block of the history stage is left, and scrape prints
\* "Finishing" and the elapsed time.
Finish ==
    /\ pc = "history_shutdown"
    /\ HistoryJoined(histTasks)
    /\ IF HistoryOutcome(histTasks) = NoError
       THEN pc' = "done" /\ exc' = exc
       ELSE pc' = "aborted" /\ exc' = HistoryOutcome(histTasks)
    /\ UNCHANGED <<config_json, cfg, cpu, world, systems, resTasks, reservoirs, histTasks, fs>>

Next ==
    \/ SystemsScrape
    \/ SystemsToDisk
    \/ ReservoirsSubmit
    \/ \E i \in 1..Len(resTasks) : ReservoirsStart(i)
    \/ \E i \in 1..Len(resTasks) : ReservoirsFinish(i)
    \/ ReservoirsJoin
    \/ \E i \in 1..Len(histTasks) : HistoryStart(i)
    \/ \E i \in 1..Len(histTasks) : HistoryFinish(i)
    \/ HistoryWait
    \/ Finish

Spec == Init /\ [][Next]_vars

-----------------------------------------------------------------------------
(* Runs on the edge worlds, and runs into an output directory that earlier *)
(* runs have filled.                                                       *)

\* An entity constructed and scraped, its request having returned 200.
Scraped(kind, address, name, system) ==
    scrape(NewEntity(kind, address, name, system).ent, HTTP_OK).ent

\* to_disk(c) of each entity of a list in turn, whatever it raises.
RECURSIVE PersistAll(_, _, _)
PersistAll(ents, c, files) ==
    IF ents = <<>> THEN files
    ELSE CHOOSE after \in {PersistAll(Tail(ents), c, f) :
                               f \in {to_disk(Head(ents), c, files).fs}} : TRUE

\* The entities of a run whose requests all return 200, in the order of the
\* pages: the systems index, every reservoir index, every history.
ReservoirEntities(sys) ==
    [s \in 1..Len(sys.data) |->
        Scraped("reservoirs", Field(sys.data[s], "address"),
                Field(sys.data[s], "name"), <<>>)]
HistoryEntities(rows) ==
    [i \in 1..Len(rows) |->
        Scraped("history", Field(rows[i], "address"),
                Field(rows[i], "name"), Field(rows[i], "system"))]
RunEntities ==
    CHOOSE all \in
        UNION {UNION {{<<sys>> \o res \o HistoryEntities(rows) :
                          rows \in {Flatten([s \in 1..Len(res) |-> res[s].data])}} :
                      res \in {ReservoirEntities(sys)}} :
               sys \in {Scraped("systems", SAR_URL, SARSystemsName, <<>>)}} : TRUE

\* The output directory after k runs under the default configuration.
RECURSIVE Earlier(_)
Earlier(k) ==
    IF k = 0 THEN NoFiles
    ELSE CHOOSE after \in {PersistAll(ents, DEFAULTS, f) :
                               ents \in {RunEntities}, f \in {Earlier(k - 1)}} : TRUE

InitEdge ==
    /\ world \in EdgeWorlds
    /\ config_json \in {Written(c) : c \in LargeConfigs}
    /\ cfg = config(config_json)
    /\ cpu = Cores
    /\ pc = "systems_scrape"
    /\ exc = NoError
    /\ systems = Construct(Job(<<>>), "systems", SAR_URL, SARSystemsName, <<>>)
    /\ resTasks = <<>>
    /\ reservoirs = <<>>
    /\ histTasks = <<>>
    /\ fs = NoFiles

SpecEdge == InitEdge /\ [][Next]_vars

InitRerun ==
    /\ world \in RerunWorlds
    /\ fs \in {Earlier(k) : k \in 0..MaxRuns}
    /\ config_json \in {Written(c) : c \in Configs}
    /\ cfg = config(config_json)
    /\ cpu = Cores
    /\ pc = "systems_scrape"
    /\ exc = NoError
    /\ systems = Construct(Job(<<>>), "systems", SAR_URL, SARSystemsName, <<>>)
    /\ resTasks = <<>>
    /\ reservoirs = <<>>
    /\ histTasks = <<>>

SpecRerun == InitRerun /\ [][Next]_vars

-----------------------------------------------------------------------------
(* The run under fair scheduling: a worker that is free takes a task that  *)
(* waits, and the main thread goes on when wait() and the with block let   *)
(* it.  Whether a request returns is the web's doing: requests.get is      *)
(* called without a timeout, and nothing here makes it return.             *)

HistoryStartAny == \E i \in 1..Len(histTasks) : HistoryStart(i)

\* A task waits and a worker is free: HistoryStartAny is enabled.
HistoryCanStart ==
    /\ pc \in {"history_wait", "history_shutdown"}
    /\ Pending(histTasks) # {}
    /\ Cardinality(Running(histTasks)) < MAX_WORKERS(cpu)

\* A step of HistoryStartAny: a task leaves the queue.
HistoryTaken ==
    \E i \in 1..Len(histTasks) :
        histTasks[i].st = "pending" /\ histTasks'[i].st # "pending"

\* Weak fairness of the workers' taking of tasks (WF_vars(HistoryStartAny),
\* with its enabling condition and its step written out), of the return of
\* wait() and of the leaving of the with block.
Fairness ==
    /\ []<>(~HistoryCanStart) \/ []<><<HistoryTaken>>_vars
    /\ WF_vars(HistoryWait)
    /\ WF_vars(Finish)

\* The runs whose termination is looked at: the small worlds under the
\* defaults and under .json alone, and the pool world under the defaults.
InitLive ==
    /\ \/ world \in SmallWorlds /\ config_json \in {Written(c) : c \in LargeConfigs}
       \/ world = PoolWorld /\ config_json = Written(DEFAULTS)
    /\ cfg = config(config_json)
    /\ cpu = Cores
    /\ pc = "systems_scrape"
    /\ exc = NoError
    /\ systems = Construct(Job(<<>>), "systems", SAR_URL, SARSystemsName, <<>>)
    /\ resTasks = <<>>
    /\ reservoirs = <<>>
    /\ histTasks = <<>>
    /\ fs = NoFiles

SpecLive == InitLive /\ [][Next]_vars /\ Fairness

-----------------------------------------------------------------------------
(* The program from its start: src/config.py reads config.json, then       *)
(* scrape(config) runs.                                                    *)

Merge(f, g) ==
    [key \in (DOMAIN f) \cup (DOMAIN g) |-> IF key \in DOMAIN f THEN f[key] ELSE g[key]]

\* The objects a config.json holds here: any of the five keys may be left
\* out, DIR names one of two directories, and a key the program does not
\* know ("LOG") may be there.
ConfigDicts ==
    {Merge(d, t) :
        d \in {<<>>} \cup {[key \in {"DIR"} |-> v] : v \in {"__output__", "out"}},
        t \in UNION {[K -> BOOLEAN] :
                        K \in SUBSET {"SQLITE3", "JSON", "PICKLE", "CSV", "LOG"}}}
ConfigFiles == {NoConfigFile, Garbled} \cup {ConfigFile(d) : d \in ConfigDicts}

\* The name `config` before config.py has run.
NotLoaded == <<>>

InitConfig ==
    /\ config_json \in ConfigFiles
    /\ cfg = NotLoaded
    /\ world = WorldOf(<<SystemRawName(1)>>,
                       << <<Option(ReservoirCode(1, 1), ReservoirRawName(1, 1),
                                   FullPage)>> >>)
    /\ cpu = Cores
    /\ pc = "config_load"
    /\ exc = NoError
    /\ systems = Construct(Job(<<>>), "systems", SAR_URL, SARSystemsName, <<>>)
    /\ resTasks = <<>>
    /\ reservoirs = <<>>
    /\ histTasks = <<>>
    /\ fs = NoFiles

\* `from config import config`: json.load raises on a file that is not JSON,
\* and only FileNotFoundError is caught.
LoadConfig ==
    /\ pc = "config_load"
    /\ IF config_json.exists /\ ~config_json.json
       THEN pc' = "aborted" /\ exc' = "JSONDecodeError" /\ cfg' = cfg
       ELSE pc' = "systems_scrape" /\ exc' = exc /\ cfg' = config(config_json)
    /\ UNCHANGED <<config_json, cpu, world, systems, resTasks, reservoirs,
                   histTasks, fs>>

NextConfig == LoadConfig \/ Next

SpecConfig == InitConfig /\ [][NextConfig]_vars

-----------------------------------------------------------------------------
(* What the properties read. *)

\* The request of the job's entity has returned.
Fetched(job) == job.ent.kind # "none" /\ job.ent.status # 0

\* The rows a file holds (of one table, for a .db file).
RowsInFile(files, f, table) ==
    IF f \notin DOMAIN files THEN 0
    ELSE IF files[f].kind = "db"
         THEN IF table \in DOMAIN files[f].tables
              THEN Len(files[f].tables[table].records) ELSE 0
         ELSE Len(files[f].rows)

Extensions == {"db", "json", "pickle", "csv"}
Enabled(c, ext) ==
    CASE ext = "db" -> c.SQLITE3 [] ext = "json" -> c.JSON
      [] ext = "pickle" -> c.PICKLE [] ext = "csv" -> c.CSV

\* Row `row` of entity e is in e's file of the format.
RowInFile(files, c, e, row, ext) ==
    LET f == _get_file_name(e, c.DIR, ext) IN
    /\ f \in DOMAIN files
    /\ IF ext = "db"
       THEN /\ Upper(row.cls) \in DOMAIN files[f].tables
            /\ \E k \in 1..Len(files[f].tables[Upper(row.cls)].records) :
                  files[f].tables[Upper(row.cls)].records[k] = row.vals
       ELSE IF ext = "csv"
       THEN \E k \in 1..Len(files[f].rows) : files[f].rows[k] = row.vals
       ELSE \E k \in 1..Len(files[f].rows) : files[f].rows[k] = AsDict(row)

-----------------------------------------------------------------------------
\* What C1 says of one entity.
ScrapeContract(job) ==
    Fetched(job) =>
        /\ job.ent.parsed <=> (job.ent.status = 200)
        /\ job.ent.status # 200 =>
              /\ job.ent.data = <<>>
              /\ job.disk.called \/ (job.st = "scraped" /\ job.exc = NoError)

(* C1: scrape() parses the page if and only if the request returned 200;   *)
(* after any other status scrape() has returned without raising and the    *)
(* entity's data is still empty.  For the systems index, every reservoir   *)
(* index and every history.                                                *)
C1_ParseIffOk ==
    /\ ScrapeContract(systems)
    /\ \A i \in 1..Len(resTasks) : ScrapeContract(resTasks[i])
    /\ \A i \in 1..Len(histTasks) : ScrapeContract(histTasks[i])

\* Entities of the three kinds parsed after a 200, and a history left empty
\* by a 404 whose scrape() returned (to_disk was called).
C1_Witness ==
    /\ systems.ent.status = 200 /\ systems.ent.parsed
    /\ \E i \in 1..Len(resTasks) : resTasks[i].ent.status = 200 /\ resTasks[i].ent.parsed
    /\ \E i \in 1..Len(histTasks) :
          /\ Fetched(histTasks[i]) /\ histTasks[i].ent.status = 404
          /\ histTasks[i].ent.data = <<>> /\ histTasks[i].disk.called
    /\ \E i \in 1..Len(histTasks) :
          /\ Fetched(histTasks[i]) /\ histTasks[i].ent.status = 200
          /\ histTasks[i].ent.data # <<>>

-----------------------------------------------------------------------------
\* Every history task has run, one reservoir's request returned a status
\* other than 200, and every other request of the run returned 200.
OneHistoryFailure ==
    /\ systems.ent.status = 200
    /\ \A i \in 1..Len(resTasks) : Fetched(resTasks[i]) /\ resTasks[i].ent.status = 200
    /\ Len(histTasks) >= 2
    /\ \A i \in 1..Len(histTasks) : Fetched(histTasks[i]) /\ histTasks[i].st = "done"
    /\ Cardinality({i \in 1..Len(histTasks) : histTasks[i].ent.status # 200}) = 1

(* C2: in a run where one reservoir's history request returns a status     *)
(* other than 200 and every other request returns 200, that reservoir has  *)
(* no history row in any file, the run is not ended by an error, and every *)
(* row of every other reservoir's history is in each enabled format's file *)
(* of that reservoir.                                                      *)
C2_HistoryFailureContained ==
    OneHistoryFailure =>
        /\ pc \in {"history_wait", "history_shutdown", "done"}
        /\ exc = NoError
        /\ \A i \in 1..Len(histTasks) :
              IF histTasks[i].ent.status # 200
              THEN \A ext \in Extensions :
                      RowsInFile(fs, _get_file_name(histTasks[i].ent, cfg.DIR, ext),
                                 Upper(histTasks[i].ent.system)) = 0
              ELSE \A ext \in Extensions : Enabled(cfg, ext) =>
                      \A k \in 1..Len(histTasks[i].ent.data) :
                          RowInFile(fs, cfg, histTasks[i].ent,
                                    histTasks[i].ent.data[k], ext)

\* The run of PoolRes reservoirs has completed under the default
\* configuration, one history request having failed.
C2_Witness ==
    /\ OneHistoryFailure
    /\ pc = "done"
    /\ cfg = DEFAULTS
    /\ Len(histTasks) = PoolRes
    /\ \E i \in 1..Len(histTasks) :
          histTasks[i].ent.status = 200 /\ Len(histTasks[i].ent.data) = MaxRows

-----------------------------------------------------------------------------
(* C3: a request that returns a status other than 200, at any of the three *)
(* stages, does not end the run with an error.  The run is ended by an     *)
(* error of the systems index's to_disk, or of a reservoir index's task,   *)
(* only if that entity's request returned 200.                             *)
C3_FailureContained ==
    pc = "aborted" =>
        /\ systems.ent.status = 200
        /\ Failed(resTasks) # {} =>
              \E i \in Failed(resTasks) : resTasks[i].ent.status = 200

-----------------------------------------------------------------------------
\* What C4 says of one entity.
PersistSkipped(job) ==
    (Fetched(job) /\ job.ent.status # 200) => job.disk.touched = {}

(* C4: for an entity whose request returned a status other than 200, no    *)
(* serializer runs: no file of any format is created or changed for it.    *)
C4_PersistSkipped ==
    /\ PersistSkipped(systems)
    /\ \A i \in 1..Len(resTasks) : PersistSkipped(resTasks[i])
    /\ \A i \in 1..Len(histTasks) : PersistSkipped(histTasks[i])

-----------------------------------------------------------------------------
\* B = min(32, cores + 4), and the history tasks in their request.
HistoryBound == IF 32 <= cpu + 4 THEN 32 ELSE cpu + 4
HistoryInFlight ==
    Cardinality({i \in 1..Len(histTasks) : histTasks[i].st = "running"})

(* C5: at every moment of the history stage, the history tasks that have   *)
(* started their request and not yet finished number at most               *)
(* B = min(32, cores + 4), whatever the number of reservoirs.              *)
C5_InFlightBounded == HistoryInFlight <= HistoryBound

\* More reservoirs than the bound: the bound is reached and a task waits.
C5_Witness ==
    /\ Len(histTasks) > HistoryBound
    /\ HistoryInFlight = HistoryBound
    /\ \E i \in 1..Len(histTasks) : histTasks[i].st = "pending"

-----------------------------------------------------------------------------
(* C6, as claimed: the history stage waits only for the first history task *)
(* to complete; once wait() has returned with a task completed, scrape can *)
(* report completion, whether or not the other tasks have finished.        *)
C6_FinishAfterFirst ==
    (pc = "history_shutdown"
        /\ \E i \in 1..Len(histTasks) : histTasks[i].st = "done")
    => ENABLED Finish

(* C6, amended: wait() returns once a history task has completed (or there *)
(* is none), but scrape reports completion only when every history task    *)
(* has finished: leaving the with block joins the pool.                    *)
C6_FinishAfterAll ==
    /\ pc \in {"history_shutdown", "done"} =>
          \/ histTasks = <<>>
          \/ \E i \in 1..Len(histTasks) : histTasks[i].st = "done"
    /\ pc = "done" => \A i \in 1..Len(histTasks) : histTasks[i].st = "done"

\* scrape has reported completion of a run of several history tasks, one
\* of which ended with an exception.
C6_Witness ==
    /\ pc = "done"
    /\ Len(histTasks) >= 2
    /\ \E i \in 1..Len(histTasks) : histTasks[i].exc # NoError

\* wait() has returned and scrape is held back by unfinished tasks.
C6_WitnessHeld ==
    /\ pc = "history_shutdown"
    /\ \E i \in 1..Len(histTasks) : histTasks[i].st = "pending"
    /\ \E i \in 1..Len(histTasks) : histTasks[i].st = "running"

-----------------------------------------------------------------------------
(* C7: the stages are strictly ordered.  No reservoir index task starts    *)
(* before the systems index is fetched, parsed and saved; no history task  *)
(* starts before every reservoir index task has returned from scrape() and *)
(* to_disk() and the results are flattened into the list of reservoirs.    *)
C7_StagesOrdered ==
    /\ (\E i \in 1..Len(resTasks) : resTasks[i].st # "pending") =>
          /\ systems.st = "done"
          /\ systems.ent.status = 200 /\ systems.ent.parsed
          /\ systems.disk.called /\ systems.disk.exc = NoError
    /\ (\E i \in 1..Len(histTasks) : histTasks[i].st # "pending") =>
          /\ \A j \in 1..Len(resTasks) :
                /\ resTasks[j].st = "done"
                /\ resTasks[j].disk.called /\ resTasks[j].disk.exc = NoError
          /\ reservoirs = Flatten([j \in 1..Len(resTasks) |-> resTasks[j].ent.data])
          /\ Len(histTasks) = Len(reservoirs)

\* The history stage is under way after a reservoirs stage of two systems.
C7_Witness ==
    /\ Len(resTasks) >= 2
    /\ \A j \in 1..Len(resTasks) : resTasks[j].ent.data # <<>>
    /\ \E i \in 1..Len(histTasks) : histTasks[i].st = "running"
    /\ \E i \in 1..Len(histTasks) : histTasks[i].st = "pending"

-----------------------------------------------------------------------------
\* Every request that has returned so far returned 200.
AllRequestsOk ==
    /\ systems.ent.status = 200
    /\ \A i \in 1..Len(resTasks) : Fetched(resTasks[i]) => resTasks[i].ent.status = 200
    /\ \A i \in 1..Len(histTasks) : Fetched(histTasks[i]) => histTasks[i].ent.status = 200

RECURSIVE SumOver(_, _)
SumOver(f, n) == IF n = 0 THEN 0 ELSE f[n] + SumOver(f, n - 1)

\* The rows of a history page that parse under the kind of its system.
PageRows(kind, page) ==
    IF HasParsingMap(kind)
    THEN MinLen([k \in 1..Len(PARSING_MAP(kind)) |->
                    [i \in 1..page[PARSING_MAP(kind)[k][2]] |-> i]])
    ELSE 0

\* The file, of one format, of the entity of a name of the pages.
FileOf(name, ext) == <<cfg.DIR, _clean(name).out, ext>>

\* The rows in a file of the history of a reservoir have the fields of the
\* kind of its system.
HistoryFieldsIn(f, kind) ==
    IF f \notin DOMAIN fs THEN TRUE
    ELSE IF fs[f].kind = "db"
    THEN \A t \in DOMAIN fs[f].tables :
            /\ t = Upper(kind)
            /\ fs[f].tables[t].columns =
                  [k \in 1..Len(HistoryFields(kind)) |-> FieldUpper(HistoryFields(kind)[k])]
    ELSE IF fs[f].kind = "csv"
    THEN fs[f].rows # <<>> => fs[f].header = HistoryFields(kind)
    ELSE \A k \in 1..Len(fs[f].rows) : fs[f].rows[k].fields = HistoryFields(kind)

(* C8: when every request returns 200, a run that has ended has saved, in  *)
(* each enabled format, one record per system of the home page, one record *)
(* per reservoir listed by the systems (their sum), and, under each        *)
(* reservoir's name, as many history rows as its page has rows, with the   *)
(* fields of its system's kind.                                            *)
C8_RecordCounts ==
    (pc \in {"done", "aborted"} /\ AllRequestsOk) =>
        \A ext \in Extensions : Enabled(cfg, ext) =>
            LET S == world.systems IN
            /\ RowsInFile(fs, FileOf(SARSystemsName, ext), Upper(SYSTEMS_CLASS)) = Len(S)
            /\ SumOver([s \in 1..Len(S) |->
                          RowsInFile(fs, FileOf(S[s].name, ext), Upper(RESERVOIRS_CLASS))],
                       Len(S))
                  = SumOver([s \in 1..Len(S) |-> Len(S[s].reservoirs)], Len(S))
            /\ \A s \in 1..Len(S) : \A j \in 1..Len(S[s].reservoirs) :
                  LET kind == _clean(S[s].name).out
                      f == FileOf(S[s].reservoirs[j].name, ext)
                  IN /\ RowsInFile(fs, f, Upper(kind))
                           = PageRows(kind, S[s].reservoirs[j].page)
                     /\ HistoryFieldsIn(f, kind)

-----------------------------------------------------------------------------
(* C9, as claimed: the reservoirs stage has no limit on simultaneous       *)
(* requests; whatever the number of systems, a task that has not started   *)
(* can start.                                                              *)
C9_NoLimit ==
    (pc = "reservoirs_join"
        /\ \E i \in 1..Len(resTasks) : resTasks[i].st = "pending")
    => \E i \in 1..Len(resTasks) : ReservoirsCanStart(i)

\* min(32, cores + 4), and the reservoir index tasks in their request.
DefaultBound == IF 32 <= cpu + 4 THEN 32 ELSE cpu + 4
ReservoirsInFlight ==
    Cardinality({i \in 1..Len(resTasks) : resTasks[i].st = "running"})

(* C9, amended: the reservoirs stage has one task per system of the home   *)
(* page and sets no limit of its own, so the executor's default applies:   *)
(* at most min(32, cores + 4) tasks are in their request at a time, and    *)
(* all tasks can be when the systems number no more than that.             *)
C9_DefaultLimit ==
    /\ pc = "reservoirs_join" =>
          Len(resTasks) = IF systems.ent.status = 200 THEN Len(world.systems) ELSE 0
    /\ ReservoirsInFlight <= DefaultBound
    /\ (/\ pc = "reservoirs_join"
        /\ Len(resTasks) <= DefaultBound
        /\ \E i \in 1..Len(resTasks) : resTasks[i].st = "pending")
       => \E i \in 1..Len(resTasks) : ReservoirsCanStart(i)

\* More systems than the default: the limit is reached and a task waits.
C9_Witness ==
    /\ pc = "reservoirs_join"
    /\ Len(resTasks) > DefaultBound
    /\ ReservoirsInFlight = DefaultBound
    /\ \E i \in 1..Len(resTasks) : resTasks[i].st = "pending"

-----------------------------------------------------------------------------
\* What C10 says of one entity.
PersistCount(job) ==
    (job.disk.called /\ cfg.SQLITE3 /\ job.disk.fresh) =>
        /\ job.disk.exc = NoError
        /\ job.disk.stored = Len(job.ent.data)

(* C10: to_disk with SQLITE3 enabled, on an entity of any kind with any    *)
(* number of rows (none included) whose .db file did not exist, succeeds   *)
(* and leaves in the file as many records as the entity has rows.          *)
C10_PersistCount ==
    /\ PersistCount(systems)
    /\ \A i \in 1..Len(resTasks) : PersistCount(resTasks[i])
    /\ \A i \in 1..Len(histTasks) : PersistCount(histTasks[i])

-----------------------------------------------------------------------------
\* What C11 says of one entity.  With SQLITE3 enabled to_disk has already
\* raised in write_data before it reaches the .csv, so that case is left out.
CsvEmptyOk(job) ==
    (job.disk.called /\ cfg.CSV /\ ~cfg.SQLITE3 /\ job.ent.data = <<>>) =>
        job.disk.exc = NoError

(* C11: to_disk of an entity without rows, with CSV enabled (and SQLITE3   *)
(* not), does not read the header from the first row and does not fail.    *)
C11_CsvEmptyPersist ==
    /\ CsvEmptyOk(systems)
    /\ \A i \in 1..Len(resTasks) : CsvEmptyOk(resTasks[i])
    /\ \A i \in 1..Len(histTasks) : CsvEmptyOk(histTasks[i])

-----------------------------------------------------------------------------
\* The jobs of the run, and the .db files of the output directory.
Jobs ==
    {systems} \cup {resTasks[i] : i \in 1..Len(resTasks)}
              \cup {histTasks[i] : i \in 1..Len(histTasks)}
DbFiles == {f \in DOMAIN fs : fs[f].kind = "db"}

(* C12, as claimed: all entities of a run write into one shared store      *)
(* file, so at most one .db file has been written, whatever the number of  *)
(* systems and reservoirs.                                                 *)
C12_SingleStore == Cardinality(DbFiles) <= 1

(* C12, amended: with SQLITE3 enabled every entity writes to the .db file  *)
(* of its own name, <DIR>/<name>.db, into the table named after the class  *)
(* of its rows in upper case (SYSTEMS, RESERVOIRS, or the system's name    *)
(* for a history); the .db files of a run are those of its entities.       *)
C12_StorePerEntity ==
    /\ \A job \in Jobs : (job.disk.called /\ cfg.SQLITE3) =>
          LET f == <<cfg.DIR, job.ent.name, "db">> IN
          /\ f \in DbFiles
          /\ (job.disk.exc = NoError /\ job.ent.data # <<>>) =>
                LET t == Upper(CASE job.ent.kind = "systems" -> SYSTEMS_CLASS
                                 [] job.ent.kind = "reservoirs" -> RESERVOIRS_CLASS
                                 [] job.ent.kind = "history" -> job.ent.system)
                IN /\ DOMAIN fs[f].tables = {t}
                   /\ fs[f].tables[t].records =
                         [k \in 1..Len(job.ent.data) |-> job.ent.data[k].vals]
    /\ \A f \in DbFiles : \E job \in Jobs :
          job.disk.called /\ f = <<cfg.DIR, job.ent.name, "db">>

\* A completed run of two systems that has left five .db files, with the
\* tables of the three kinds of entity.
C12_Witness ==
    /\ pc = "done"
    /\ Cardinality(DbFiles) = 5
    /\ \E f \in DbFiles : Upper(SYSTEMS_CLASS) \in DOMAIN fs[f].tables
    /\ \E f \in DbFiles : Upper(KIND_NE) \in DOMAIN fs[f].tables
    /\ \E f \in DbFiles : Upper(RESERVOIRS_CLASS) \in DOMAIN fs[f].tables

-----------------------------------------------------------------------------
\* What C13 says of one entity: its n rows go into a table that the earlier
\* runs have left with k * n records, and the table then holds (k + 1) * n.
RowsAccumulate(job) ==
    (job.disk.called /\ cfg.SQLITE3 /\ job.ent.data # <<>>) =>
        /\ job.disk.exc = NoError
        /\ \E k \in 0..MaxRuns :
              /\ job.disk.had = k * Len(job.ent.data)
              /\ job.disk.stored = (k + 1) * Len(job.ent.data)

(* C13: creating the table is idempotent and rows accumulate: to_disk of   *)
(* the same n >= 1 rows for the k-th time into the same .db file does not  *)
(* fail on the table that exists and leaves exactly k * n records in it.   *)
C13_RowsAccumulate == \A job \in Jobs : RowsAccumulate(job)

\* The history of a reservoir is saved for the (MaxRuns + 1)-th time.
C13_Witness ==
    \E i \in 1..Len(histTasks) :
        /\ histTasks[i].disk.called /\ cfg.SQLITE3
        /\ Len(histTasks[i].ent.data) = MaxRows
        /\ histTasks[i].disk.had = MaxRuns * MaxRows
        /\ histTasks[i].disk.stored = (MaxRuns + 1) * MaxRows

-----------------------------------------------------------------------------
\* The letters with a diacritic, and the texts without any and without space.
Diacritics ==
    {UPPERCASE[i] : i \in 27..Len(UPPERCASE)} \cup {LOWERCASE[i] : i \in 27..Len(LOWERCASE)}
Plain(text) == \A i \in 1..Len(text) : ~IsSpace(text[i]) /\ text[i] \notin Diacritics

\* What C14 says of a name the run has normalized: it is plain, and
\* normalizing it again gives it back.
Normalized(name) == Plain(name) /\ _clean(name) = [ok |-> TRUE, out |-> name]

(* C14: for every non-empty raw name x, _clean(_clean(x)) = _clean(x), and *)
(* _clean(x) has no space and no letter with a diacritic.  Read off the    *)
(* run: the name of a reservoir index entity is _clean of the system's raw *)
(* name; the name in a reservoir's row is _clean of the option's text, and *)
(* the history entity is constructed from it by _clean again.              *)
C14_CleanIdempotent ==
    /\ \A i \in 1..Len(resTasks) :
          (resTasks[i].st # "pending" /\ Field(resTasks[i].arg, "name") # <<>>) =>
              /\ resTasks[i].ent.kind = "reservoirs"
              /\ Normalized(resTasks[i].ent.name)
    /\ \A i \in 1..Len(histTasks) :
          LET once == Field(histTasks[i].arg, "name") IN
          /\ Normalized(once)
          /\ histTasks[i].st # "pending" =>
                /\ histTasks[i].ent.kind = "history"
                /\ histTasks[i].ent.name = once

\* The same, of the raw names that are not made of whitespace only.
C14_CleanIdempotentOfWords ==
    /\ \A i \in 1..Len(resTasks) :
          (resTasks[i].st # "pending" /\ Strip(Field(resTasks[i].arg, "name")) # <<>>) =>
              /\ resTasks[i].ent.kind = "reservoirs"
              /\ Normalized(resTasks[i].ent.name)
    /\ \A i \in 1..Len(histTasks) :
          LET once == Field(histTasks[i].arg, "name") IN
          once # <<>> =>
              /\ Normalized(once)
              /\ histTasks[i].st # "pending" =>
                    /\ histTasks[i].ent.kind = "history"
                    /\ histTasks[i].ent.name = once

-----------------------------------------------------------------------------
\* The rows of the entities of the run.
RowsOf(job) == {job.ent.data[k] : k \in 1..Len(job.ent.data)}

(* C15: _clean never gives an empty identifier without failing: whatever   *)
(* the pages hold, no entity of the run has the empty name, no file has    *)
(* the empty stem, and no row has the empty string as the name of its      *)
(* reservoir or of its system.                                             *)
C15_NoEmptyIdentifier ==
    /\ \A job \in Jobs : job.ent.kind # "none" => job.ent.name # <<>>
    /\ \A f \in DOMAIN fs : f[2] # <<>>
    /\ \A i \in 1..Len(resTasks) : \A row \in RowsOf(resTasks[i]) :
          Field(row, "name") # <<>> /\ Field(row, "system") # <<>>
    /\ \A i \in 1..Len(histTasks) : \A row \in RowsOf(histTasks[i]) :
          Field(row, "reservoir") # <<>>

-----------------------------------------------------------------------------
\* The reservoirs the run has found: the task of the owning system and the
\* place in its list.
Found == {p \in (1..Len(resTasks)) \X (1..(PoolRes + MaxSys)) :
             p[2] <= Len(resTasks[p[1]].ent.data)}
FoundRow(p) == resTasks[p[1]].ent.data[p[2]]
OwnerAddress(p) == resTasks[p[1]].ent.address

(* C16: the address of a reservoir is a function of its system's address,  *)
(* its code and the end date: it starts with the system's address and ends *)
(* with the day, month and year of the date; reservoirs of one run with    *)
(* the same system address and code have the same address, and reservoirs  *)
(* that differ in system address or in code have different addresses.      *)
C16_AddressesDistinct ==
    /\ \A p \in Found :
          LET a == Field(FoundRow(p), "address")
              n == Len(OwnerAddress(p))
          IN /\ Len(a) > n /\ SubSeq(a, 1, n) = OwnerAddress(p)
             /\ \E k \in 1..(Len(a) - Len(Field(FoundRow(p), "code")) + 1) :
                   SubSeq(a, k, k + Len(Field(FoundRow(p), "code")) - 1)
                       = Field(FoundRow(p), "code")
             /\ Len(a) > 10
             /\ SubSeq(a, Len(a) - 10, Len(a) - 1)
                   = SubSeq(TODAY, 9, 10) \o <<"%2F">> \o SubSeq(TODAY, 6, 7)
                        \o <<"%2F">> \o SubSeq(TODAY, 1, 4)
    /\ \A p, q \in Found :
          (Field(FoundRow(p), "address") = Field(FoundRow(q), "address"))
              <=> (/\ OwnerAddress(p) = OwnerAddress(q)
                   /\ Field(FoundRow(p), "code") = Field(FoundRow(q), "code"))

\* The reservoirs of the pool world have been found, PoolRes of one system.
C16_Witness ==
    /\ pc \in {"history_wait", "history_shutdown", "done"}
    /\ Cardinality(Found) = PoolRes
    /\ Len(reservoirs) = PoolRes

-----------------------------------------------------------------------------
\* The classes coluna_<k> of the fields of a system kind, and the smallest
\* number of cells the page has of any of them.
FieldColumns(kind) == {PARSING_MAP(kind)[k][2] : k \in 1..Len(PARSING_MAP(kind))}
SmallestCount(kind, page) ==
    CHOOSE m \in {page[c] : c \in FieldColumns(kind)} :
        \A c \in FieldColumns(kind) : m <= page[c]

\* What C17 says of one history whose page has been parsed.
WholeRows(job) ==
    (job.ent.kind = "history" /\ job.ent.parsed /\ HasParsingMap(job.ent.system)) =>
        LET schema == PARSING_MAP(job.ent.system)
            page == HistoryPageAt(job.ent.address)
        IN /\ job.disk.called
           /\ Len(job.ent.data) = SmallestCount(job.ent.system, page)
           /\ \A i \in 1..Len(job.ent.data) :
                 LET row == job.ent.data[i] IN
                 /\ Len(row.fields) = Len(schema) + 1
                 /\ Len(row.vals) = Len(schema) + 1
                 /\ \A k \in 1..Len(schema) :
                       /\ row.fields[k] = schema[k][1]
                       /\ row.vals[k] = CellText(schema[k][2], i)
                 /\ row.fields[Len(schema) + 1] = "reservoir"
                 /\ row.vals[Len(schema) + 1] = job.ent.name

(* C17: after _parse of a history page every row has one value for each    *)
(* field of the schema of its system and the name of the reservoir, the    *)
(* i-th row holding the i-th cell of each field's class; when the classes  *)
(* have different numbers of cells the rows number as many as the class    *)
(* with the fewest, and _parse raises no error.                            *)
C17_WholeRows == \A i \in 1..Len(histTasks) : WholeRows(histTasks[i])

\* A page whose classes have different numbers of cells has been parsed
\* into at least one row (of SIN, whose first field has the most cells, and
\* of Nordeste e Semiárido, whose first field has the fewest).
C17_Witness ==
    \E i \in 1..Len(histTasks) :
        LET job == histTasks[i]
            page == HistoryPageAt(job.ent.address)
        IN /\ job.ent.kind = "history" /\ job.ent.parsed
           /\ job.ent.system = KIND_SIN
           /\ Len(job.ent.data) >= 1
           /\ page[PARSING_MAP(KIND_SIN)[1][2]] > Len(job.ent.data)

-----------------------------------------------------------------------------
\* The entities of the run, by their place: the systems index, the i-th
\* reservoir index, the i-th history.
Slots ==
    {<<"systems", 1>>} \cup {<<"reservoirs", i>> : i \in 1..Len(resTasks)}
                       \cup {<<"history", i>> : i \in 1..Len(histTasks)}
JobAt(slot) ==
    CASE slot[1] = "systems" -> systems
      [] slot[1] = "reservoirs" -> resTasks[slot[2]]
      [] slot[1] = "history" -> histTasks[slot[2]]

(* C18: every entity of a run has output files of its own: no file         *)
(* <DIR>/<name>.<ext> is created or changed by the to_disk of two          *)
(* different entities of the run.                                          *)
C18_OwnFiles ==
    \A p, q \in Slots :
        p # q => JobAt(p).disk.touched \cap JobAt(q).disk.touched = {}

-----------------------------------------------------------------------------
\* The entities whose to_disk has been called, in the order of the pages.
WasSaved(job) == job.disk.called
EntitiesOf(tasks) ==
    LET saved == SelectSeq(tasks, WasSaved) IN [k \in 1..Len(saved) |-> saved[k].ent]
SavedInPageOrder ==
    EntitiesOf(<<systems>>) \o EntitiesOf(resTasks) \o EntitiesOf(histTasks)

(* C19: the result of a run does not depend on the order of the work: for  *)
(* given pages and responses, the files of the output directory and what   *)
(* they hold at the end of the run are those that saving the same entities *)
(* one after another in the order of the pages leaves, whatever the order  *)
(* in which the tasks ran.                                                 *)
C19_OrderIndependent ==
    pc \in {"done", "aborted"} => fs = PersistAll(SavedInPageOrder, cfg, NoFiles)

-----------------------------------------------------------------------------
\* What C20 says of one entity with rows, once its to_disk has returned: its
\* to_disk did not fail, every row is in its file of each enabled format,
\* and no file but its files of the enabled formats has been created or
\* changed.  Its .db has changed
\* (rows are added), and so has every file of an enabled format when no
\* earlier run had left the entity's files (a file written again with what
\* it held does not show as changed).
OnlyEnabled(job) ==
    (job.disk.called /\ job.ent.data # <<>>) =>
        /\ job.disk.exc = NoError
        /\ \A ext \in Extensions : Enabled(cfg, ext) =>
              /\ <<cfg.DIR, job.ent.name, ext>> \in DOMAIN fs
              /\ \A k \in 1..Len(job.ent.data) :
                    RowInFile(fs, cfg, job.ent, job.ent.data[k], ext)
        /\ job.disk.touched \subseteq
              {<<cfg.DIR, job.ent.name, ext>> : ext \in {x \in Extensions : Enabled(cfg, x)}}
        /\ cfg.SQLITE3 => <<cfg.DIR, job.ent.name, "db">> \in job.disk.touched
        /\ job.disk.fresh =>
              \A ext \in Extensions : Enabled(cfg, ext) =>
                  <<cfg.DIR, job.ent.name, ext>> \in job.disk.touched

(* C20: to_disk runs the serializers whose toggle is true and no other:    *)
(* for an entity with rows, the file <DIR>/<name>.<ext> of every enabled   *)
(* format is written with the rows, and the files of the disabled formats  *)
(* are neither created nor changed (those that earlier runs left stay as   *)
(* they were).                                                             *)
(* Stated of the step in which the entity's to_disk runs, since a later    *)
(* to_disk of an entity of the same name writes the same files.            *)
C20_OnlyEnabled ==
    [][\A slot \in Slots' :
          (~(slot \in Slots /\ JobAt(slot).disk.called) /\ JobAt(slot)'.disk.called)
              => OnlyEnabled(JobAt(slot))']_vars

\* A history with rows is saved as .json alone into a directory where an
\* earlier run has left its .db, .pickle and .csv.
C20_Witness ==
    \E i \in 1..Len(histTasks) :
        LET job == histTasks[i] IN
        /\ job.disk.called /\ job.ent.data # <<>>
        /\ cfg.JSON /\ ~cfg.SQLITE3 /\ ~cfg.PICKLE /\ ~cfg.CSV
        /\ <<cfg.DIR, job.ent.name, "csv">> \in DOMAIN fs
        /\ <<cfg.DIR, job.ent.name, "db">> \in DOMAIN fs
        /\ job.disk.touched \subseteq {<<cfg.DIR, job.ent.name, "json">>}

-----------------------------------------------------------------------------
\* The error a job ended with is of those C21 speaks of: _clean's refusal of
\* an empty name, the lookup of a system without a parsing map, or an error
\* of to_disk.
FatalError(job) ==
    job.st = "done" /\ job.exc \in {"NotImplementedError", "AttributeError",
                                   "IndexError", "OperationalError"}

(* C21: an error other than a transport failure (an empty name given to    *)
(* _clean, a system without a parsing map, a failure of to_disk), raised   *)
(* for any entity at any stage, the history tasks included, ends the run:  *)
(* scrape does not report completion after such an error.                  *)
C21_ErrorsEndRun == pc = "done" => \A job \in Jobs : ~FatalError(job)

-----------------------------------------------------------------------------
\* A name is as the spec describes a normalized one: in lower case, without
\* whitespace and without diacritics.
LowerPlain(name) == Lower(name) = name /\ Plain(name)

(* C22: every row of the systems index, as parsed from the home page and   *)
(* as saved in the systems' .json file, has a normalized name: in lower    *)
(* case, whitespace replaced by underscores, diacritics stripped.          *)
C22_SystemNamesNormalized ==
    /\ \A k \in 1..Len(systems.ent.data) :
          LowerPlain(Field(systems.ent.data[k], "name"))
    /\ LET f == _get_file_name(systems.ent, cfg.DIR, "json") IN
       f \in DOMAIN fs =>
          \A k \in 1..Len(fs[f].rows) : LowerPlain(Field(fs[f].rows[k], "name"))

-----------------------------------------------------------------------------
\* The systems of the web whose index page is at the address.
SystemsAt(address) ==
    {s \in 1..Len(world.systems) : DOMAIN_URL \o world.systems[s].href = address}

\* The rows of a reservoir index's task name the system of the task: the
\* `system` field is the normalized name of the system the home page lists
\* at the task's address, and that system's page lists the row's code.
ReservoirProvenance(job) ==
    \A k \in 1..Len(job.ent.data) :
        LET row == job.ent.data[k] IN
        /\ Field(row, "system") = _clean(Field(job.arg, "name")).out
        /\ \E s \in SystemsAt(Field(job.arg, "address")) :
              /\ _clean(world.systems[s].name).out = Field(row, "system")
              /\ \E j \in 1..Len(world.systems[s].reservoirs) :
                    /\ world.systems[s].reservoirs[j].code = Field(row, "code")
                    /\ _clean(world.systems[s].reservoirs[j].name).out
                           = Field(row, "name")

\* The rows of a history task name the reservoir of the task: the
\* `reservoir` field is the name of the reservoir record the task was given,
\* and the page that was parsed is the one at that record's address.
HistoryProvenance(job) ==
    /\ job.ent.kind = "history" => job.ent.address = Field(job.arg, "address")
    /\ \A k \in 1..Len(job.ent.data) :
          Field(job.ent.data[k], "reservoir") = Field(job.arg, "name")

(* C23: provenance is carried by the identity columns.  The `system` field *)
(* of every reservoir record is the normalized name of the system whose    *)
(* index page listed it, and the `reservoir` field of every history row is *)
(* the normalized name of the reservoir whose page it was parsed from, in  *)
(* every run and under every interleaving of the tasks.                    *)
C23_Provenance ==
    /\ \A i \in 1..Len(resTasks) : ReservoirProvenance(resTasks[i])
    /\ \A i \in 1..Len(histTasks) : HistoryProvenance(histTasks[i])

\* A run of two systems has completed, each with a reservoir record, both
\* histories fetched and one of them with rows.
C23_Witness ==
    /\ pc = "done"
    /\ Len(resTasks) = 2 /\ Len(histTasks) = 2
    /\ \A i \in 1..2 : resTasks[i].ent.data # <<>> /\ histTasks[i].ent.status = 200
    /\ \E i \in 1..2 : histTasks[i].ent.data # <<>>
    /\ Field(resTasks[1].ent.data[1], "system") # Field(resTasks[2].ent.data[1], "system")

-----------------------------------------------------------------------------
\* config.py has run and has left a configuration.
ConfigLoaded == pc # "config_load" /\ exc # "JSONDecodeError"

(* C24: after the configuration is loaded it has a value for each of DIR,  *)
(* SQLITE3, JSON, PICKLE and CSV: a key that config.json lacks has its     *)
(* default, a key that config.json holds keeps the file's value, and       *)
(* without a config.json the configuration is the defaults.                *)
C24_ConfigFilled ==
    ConfigLoaded =>
        /\ {"DIR", "SQLITE3", "JSON", "PICKLE", "CSV"} \subseteq DOMAIN cfg
        /\ config_json.exists =>
              /\ \A key \in DOMAIN DEFAULTS :
                    key \notin DOMAIN config_json.dict => cfg[key] = DEFAULTS[key]
              /\ \A key \in DOMAIN config_json.dict : cfg[key] = config_json.dict[key]
        /\ ~config_json.exists => cfg = DEFAULTS

\* A run has completed under a config.json that turns JSON off, names
\* another directory and leaves the other keys out.
C24_Witness ==
    /\ pc = "done"
    /\ config_json.exists
    /\ DOMAIN config_json.dict = {"DIR", "JSON"}
    /\ cfg.DIR = "out" /\ ~cfg.JSON /\ cfg.CSV /\ cfg.SQLITE3 /\ cfg.PICKLE
    /\ <<"out", <<"s", "i", "n">>, "csv">> \in DOMAIN fs

-----------------------------------------------------------------------------
\* What C25 says of one history task whose system has no parsing map: it
\* has no rows, and once its request has returned 200 it has ended with the
\* error of the lookup, its to_disk was not called and it has no file.
UnknownKindFails(job) ==
    (job.ent.kind = "history" /\ ~HasParsingMap(job.ent.system)) =>
        /\ job.ent.data = <<>>
        /\ job.ent.status = 200 =>
              /\ job.st = "done"
              /\ job.exc = "AttributeError"
              /\ ~job.disk.called /\ job.disk.touched = {}
              /\ \A ext \in Extensions :
                    _get_file_name(job.ent, cfg.DIR, ext) \notin DOMAIN fs

(* C25: a history entity whose system has no entry in __PARSING_MAP never  *)
(* gets rows of a default schema: when its request returns 200, scrape()   *)
(* fails at the lookup of the map and nothing is saved for the entity.     *)
C25_UnknownKindFails == \A i \in 1..Len(histTasks) : UnknownKindFails(histTasks[i])

\* The history of a reservoir of a system named "b" was fetched with
\* status 200, and the run has completed.
C25_Witness ==
    /\ pc = "done"
    /\ \E i \in 1..Len(histTasks) :
          /\ histTasks[i].ent.kind = "history"
          /\ histTasks[i].ent.system = <<"b">>
          /\ histTasks[i].ent.status = 200
          /\ histTasks[i].exc = "AttributeError"

-----------------------------------------------------------------------------
\* The history tasks that have been submitted to the pool and have not
\* finished: waiting in the pool's queue, or in their request.
HistorySubmitted ==
    Cardinality({i \in 1..Len(histTasks) : histTasks[i].st # "done"})

(* C26: the history stage does not submit every reservoir's task at once:  *)
(* at every moment the history tasks that have been submitted to the pool  *)
(* and have not finished number at most B = min(32, cores + 4), whatever   *)
(* the number of reservoirs.                                               *)
C26_SubmittedBounded == HistorySubmitted <= HistoryBound

-----------------------------------------------------------------------------
\* A task is in its request once, from its start to the return of the
\* request.  So every request returns exactly when, again and again, no
\* request is outstanding, and some request never returns exactly when from
\* some moment on a request is always outstanding.
EveryFetchReturns == []<>(Running(histTasks) = {})
SomeFetchHangs == <>[](Running(histTasks) # {})

(* C27: termination.  If the systems and reservoirs stages succeed and     *)
(* every history request eventually returns, with any status, then under   *)
(* fair scheduling scrape eventually reports completion, and when it does  *)
(* every submitted history task has finished, normally or with an error.   *)
(* If a history request never returns, scrape never reports completion.    *)
C27_Termination ==
    /\ EveryFetchReturns => ((pc = "history_wait") ~> (pc = "done"))
    /\ [](pc = "done" => Done(histTasks) = 1..Len(histTasks))
    /\ SomeFetchHangs => [](pc # "done")

\* scrape has reported completion of a run of more reservoirs than workers,
\* with history requests that returned 200 and others that did not.
C27_Witness ==
    /\ pc = "done"
    /\ Len(histTasks) > MAX_WORKERS(cpu)
    /\ \E i \in 1..Len(histTasks) : histTasks[i].ent.status = 200
    /\ \E i \in 1..Len(histTasks) : histTasks[i].ent.status # 200

====
